---- MODULE Spec2Model ----
(***************************************************************************)
(* Circuit topology analysis and SPICE netlist generation of the           *)
(* hardware-ai-orchestrator vision subsystem:                              *)
(*   src/src/vision/topology/connection_detector.py                        *)
(*   src/src/vision/topology/netlist_generator.py                          *)
(*   src/src/vision/schematic_processor/integration_handler.py             *)
(***************************************************************************)
EXTENDS Integers, Sequences, FiniteSets, TLC

VARIABLES
    \* ---- AdvancedConnectionDetector._identify_electrical_nodes called on its own
    component_pins,        \* list of pin dicts handed to the node resolver
    connections,           \* list of Connection objects handed to the node resolver
    nodes,                 \* list of Node objects returned (None before the call)
    nodeGroups,            \* the pin group _find_connected_pins returned for each node
    \* ---- EnhancedSchematicProcessor.process_schematic, lines 66-262
    hashSeed,              \* iteration order of a set of str in this interpreter process
    image,                 \* the file behind image_path
    detected_components,   \* enhanced_components
    fault,                 \* the step of detect_connections that threw in this run
    detect_outcome,        \* how the call of detect_connections ended
    topology_analysis,     \* the local topology_analysis of process_schematic
    netlist_result,        \* what generate_spice_netlist gave back to process_schematic
    netlist_calls,         \* how often process_schematic invoked generate_spice_netlist
    status,                \* 'status' of the response
    pc,                    \* position inside process_schematic
    run,                   \* 1 for the first processing of the request, 2 for the repeat
    firstRun,              \* the results of the first processing
    \* ---- NetlistGenerator.generate_spice_netlist called on its own
    net_arg,               \* the components argument
    net_result,            \* the returned dict, or the exception that escaped
    net_called,            \* TRUE once the call has returned
    \* ---- NetlistGenerator._generate_spice_name, two synthesis runs on one generator
    component_counter,     \* self.component_counter
    pending,               \* per run: the components still to be named
    served,                \* per run: the components named so far
    names,                 \* per run: the names handed out so far
    \* ---- a helper method called on its own
    call,                  \* the method and its arguments
    ret,                   \* the value it returned
    returned               \* TRUE once the call has returned

topoVars == <<component_pins, connections, nodes, nodeGroups>>
procVars == <<hashSeed, image, detected_components, fault, detect_outcome,
              topology_analysis, netlist_result,
              netlist_calls, status, pc, run, firstRun>>
netVars == <<net_arg, net_result, net_called>>
nameVars == <<component_counter, pending, served, names>>
callVars == <<call, ret, returned>>
vars == <<topoVars, procVars, netVars, nameVars, callVars>>

None == "None"

\* an empty dict
EmptyDict == [k \in {} |-> 0]

\* a Python object that is not a dict: [py |-> <type name>]
PyNoneObj == [py |-> "NoneType"]
\* a dict value that is None where a str is expected
PyNone == "<NoneType>"

\* ------------------------------------------------------------------ bounds
MaxPins == 3        \* longest pin list given to the node resolver on its own
MaxConns == 2       \* longest Connection list given to the node resolver on its own
MaxComps == 2       \* most components of a processed schematic
MaxSegs == 2        \* most segments found in a processed image
MaxNetComps == 3    \* longest components argument of generate_spice_netlist on its own
MaxRunLen == 2      \* most components named in one synthesis run
MaxDigits == 2      \* most digits of a value string given to a value parser
MaxLines == 3       \* most raw segments given to _merge_nearby_lines

\* ------------------------------------------------------------ generic helpers
Range(s) == {s[i] : i \in 1..Len(s)}

\* every duplicate-free sequence over S of length at most n
RECURSIVE DistinctSeqs(_, _)
DistinctSeqs(S, n) ==
    IF n = 0 THEN {<<>>}
    ELSE LET shorter == DistinctSeqs(S, n - 1)
         IN  shorter \cup UNION {{Append(s, x) : x \in S \ Range(s)} :
                                    s \in {t \in shorter : Len(t) = n - 1}}

\* every sequence over S of length at most n
RECURSIVE SeqsUpTo(_, _)
SeqsUpTo(S, n) ==
    IF n = 0 THEN {<<>>} ELSE SeqsUpTo(S, n - 1) \cup [1..n -> S]

Permutations_(S) == {s \in DistinctSeqs(S, Cardinality(S)) : Len(s) = Cardinality(S)}

\* dict.get(key, default)
Get(d, key, default) == IF key \in DOMAIN d THEN d[key] ELSE default

\* list(set(xs)) for a list of str: the elements once each, in the order the
\* interpreter's string hashing (PYTHONHASHSEED, random per process) lays them out
RECURSIVE OrderBy(_, _)
OrderBy(S, seed) ==
    IF seed = <<>> THEN <<>>
    ELSE IF Head(seed) \in S THEN <<Head(seed)>> \o OrderBy(S, Tail(seed))
         ELSE OrderBy(S, Tail(seed))

ListOfSet(xs, seed) == OrderBy(Range(xs), seed)

\* ------------------------------------------------------- component catalogue
CompIds == {"R1", "R2", "G1"}

CompR1 == [id |-> "R1", bbox |-> <<0, 0, 40, 20>>, component_type |-> "resistor",
           designation |-> "R1", value |-> "10k"]
CompR2 == [id |-> "R2", bbox |-> <<100, 0, 140, 20>>, component_type |-> "resistor"]
CompG1 == [id |-> "G1", bbox |-> <<50, 40, 70, 60>>, component_type |-> "ground"]

Catalogue == {CompR1, CompR2, CompG1}

\* classified segments (start, end, confidence in percent) around the pins
\* (0,10) (40,10) of R1, (100,10) (140,10) of R2 and (60,40) of G1
Segment(a, b, confidence) ==
    [start_point |-> a, end_point |-> b, connection_type |-> "wire",
     confidence |-> confidence]

SegSeries == Segment(<<45, 10>>, <<95, 10>>, 100)    \* R1 right to R2 left
SegBothPins == Segment(<<20, 10>>, <<200, 10>>, 100) \* 20px from both pins of R1
SegFar == Segment(<<65, 10>>, <<200, 50>>, 80)       \* exactly 25px from R1 right
SegGround == Segment(<<55, 30>>, <<95, 10>>, 80)     \* G1 to R2 left, 25px from R1 right
SegDangling == Segment(<<64, 10>>, <<64, 4>>, 90)    \* 24px from R1 right, 6px long

SegmentCatalogue == {SegSeries, SegBothPins, SegFar, SegGround, SegDangling}

\* ------------------------------------------------------- segment classifier
Abs(a) == IF a >= 0 THEN a ELSE 0 - a

\* |minor| < tan(15 deg) * major for major > 0: tan(15 deg) = 2 - sqrt(3), so the
\* test is (2 * major - |minor|)^2 > 3 * major^2, exact on integers
Within15(major, minor) ==
    /\ major > 0
    /\ 2 * major > Abs(minor)
    /\ (2 * major - Abs(minor)) * (2 * major - Abs(minor)) > 3 * major * major

\* line 187 on angle = arctan2(dy, dx) in degrees, which lies in (-180, 180]:
\* abs(angle) < 15, abs(angle - 90) < 15, abs(angle - 180) < 15
AngleNearAxis(dx, dy) ==
    \/ dx = 0 /\ dy = 0
    \/ Within15(dx, dy)
    \/ Within15(dy, dx)
    \/ dy >= 0 /\ Within15(0 - dx, dy)

\* lines 173-211 for one segment; thickness and continuity are what lines 179-180
\* measure on the image; confidence and continuity are in hundredths
classify_segment(i, line, thickness, continuity) ==
    LET dx == line[3] - line[1]
        dy == line[4] - line[2]
        c0 == 70
        c1 == IF AngleNearAxis(dx, dy) THEN c0 + 20 ELSE c0
        c2 == IF dx * dx + dy * dy > 30 * 30 THEN c1 + 10 ELSE c1
        c3 == IF thickness <= 3 /\ continuity > 80 THEN c2 + 10 ELSE c2
    IN  [id |-> <<"conn_", i>>,
         start_point |-> <<line[1], line[2]>>,
         end_point |-> <<line[3], line[4]>>,
         connection_type |-> "wire",
         confidence |-> IF c3 <= 100 THEN c3 ELSE 100,
         properties |-> [length2 |-> dx * dx + dy * dy,
                         thickness |-> thickness,
                         continuity |-> continuity]]

\* a measured segment is [line, thickness, continuity]
classify_line_segments(measured) ==
    [i \in 1..Len(measured) |->
        classify_segment(i - 1, measured[i].line, measured[i].thickness,
                         measured[i].continuity)]

\* ----------------------------------------------------------------- pin locator
\* int() of a non-negative quotient a / b
IntDiv(a, b) == a \div b

\* pins of a transistor / op_amp / ic, i = 0 .. num_pins-1, two per step
RECURSIVE MultiPins(_, _, _, _)
MultiPins(bbox, horizontal, num_pins, i) ==
    LET x1 == bbox[1]  y1 == bbox[2]  x2 == bbox[3]  y2 == bbox[4]
        width == x2 - x1
        height == y2 - y1
        pin_x == IntDiv(x1 * (num_pins + 1) + (i + 1) * width, num_pins + 1)
        pin_y == IntDiv(y1 * (num_pins + 1) + (i + 1) * height, num_pins + 1)
    IN  IF i >= num_pins THEN <<>>
        ELSE (IF horizontal THEN << <<pin_x, y1>>, <<pin_x, y2>> >>
                            ELSE << <<x1, pin_y>>, <<x2, pin_y>> >>)
             \o MultiPins(bbox, horizontal, num_pins, i + 1)

Max2(a, b) == IF a >= b THEN a ELSE b

HorizontalUnlessTaller(width, height) == width >= height

\* line 340: "Horizontal orientation"
HorizontalOrientation(width, height) == width > height

get_component_pin_locations(bbox, comp_type) ==
    LET x1 == bbox[1]  y1 == bbox[2]  x2 == bbox[3]  y2 == bbox[4]
        center_x == IntDiv(x1 + x2, 2)
        center_y == IntDiv(y1 + y2, 2)
        width == x2 - x1
        height == y2 - y1
    IN  IF comp_type \in {"resistor", "inductor"}
            THEN << <<x1, center_y>>, <<x2, center_y>> >>
        ELSE IF comp_type = "capacitor"
            THEN << <<x1, center_y>>, <<x2, center_y>> >>
        ELSE IF comp_type \in {"transistor", "op_amp", "ic"}
            THEN IF HorizontalOrientation(width, height)
                 THEN MultiPins(bbox, TRUE, Max2(2, IntDiv(width, 20)), 0)
                 ELSE MultiPins(bbox, FALSE, Max2(2, IntDiv(height, 20)), 0)
        ELSE IF comp_type = "voltage_source"
            THEN << <<center_x, y1>>, <<center_x, y2>> >>
        ELSE IF comp_type = "ground"
            THEN << <<center_x, y1>> >>
        ELSE << <<x1, center_y>>, <<x2, center_y>> >>

\* the pin dicts of one component; pin_id f'{comp_id}_pin_{pin_idx}' is the pair
PinsOf(component) ==
    LET comp_type == Get(component, "component_type", "unknown")
        pins == get_component_pin_locations(component.bbox, comp_type)
    IN  [k \in 1..Len(pins) |->
            [pin_id |-> <<component.id, "_pin_", k - 1>>,
             component_id |-> component.id,
             position |-> pins[k],
             pin_number |-> k,
             component_type |-> comp_type]]

RECURSIVE extract_component_pins(_)
extract_component_pins(comps) ==
    IF comps = <<>> THEN <<>>
    ELSE PinsOf(Head(comps)) \o extract_component_pins(Tail(comps))

\* ---------------------------------------------------------------- line merging
Min2(a, b) == IF a <= b THEN a ELSE b

distance_threshold == 10

\* lines 154-157: np.sqrt(d) < distance_threshold at both ends, integer coordinates
IsNearby(line1, line2) ==
    /\ (line1[1] - line2[1]) * (line1[1] - line2[1])
         + (line1[2] - line2[2]) * (line1[2] - line2[2])
            < distance_threshold * distance_threshold
    /\ (line1[3] - line2[3]) * (line1[3] - line2[3])
         + (line1[4] - line2[4]) * (line1[4] - line2[4])
            < distance_threshold * distance_threshold

\* an inner loop that measures against the segment merged so far
ReferenceMerged(line1, merged_line) == merged_line

\* lines 143, 154-155: the distances are measured from line1 itself
Reference(line1, merged_line) == line1

\* lines 147-163; st.absorbed lists the indexes put into used in this pass
RECURSIVE MergeInner(_, _, _, _)
MergeInner(lines, line1, j, st) ==
    IF j > Len(lines) THEN st
    ELSE IF j \in st.used THEN MergeInner(lines, line1, j + 1, st)
    ELSE LET line2 == lines[j]
             ref == Reference(line1, st.merged_line)
         IN  IF IsNearby(ref, line2)
             THEN MergeInner(lines, line1, j + 1,
                      [merged_line |-> <<Min2(line1[1], line2[1]), Min2(line1[2], line2[2]),
                                         Max2(line1[3], line2[3]), Max2(line1[4], line2[4])>>,
                       used |-> st.used \cup {j},
                       absorbed |-> Append(st.absorbed, j)])
             ELSE MergeInner(lines, line1, j + 1, st)

\* lines 139-165
RECURSIVE MergeOuter(_, _, _)
MergeOuter(lines, i, acc) ==
    IF i > Len(lines) THEN acc
    ELSE IF i \in acc.used THEN MergeOuter(lines, i + 1, acc)
    ELSE LET st == MergeInner(lines, lines[i], i + 1,
                              [merged_line |-> lines[i], used |-> acc.used \cup {i},
                               absorbed |-> <<i>>])
         IN  MergeOuter(lines, i + 1,
                        [merged |-> Append(acc.merged, st.merged_line),
                         used |-> st.used,
                         groups |-> Append(acc.groups, st.absorbed)])

\* lines 131-167; groups[k] lists the input indexes merged into merged[k]
merge_nearby_lines(lines) ==
    IF Len(lines) = 0 THEN [merged |-> <<>>, groups |-> <<>>]
    ELSE LET acc == MergeOuter(lines, 1, [merged |-> <<>>, used |-> {}, groups |-> <<>>])
         IN  [merged |-> acc.merged, groups |-> acc.groups]

\* -------------------------------------------------------------- node resolver
Processed(st) == {st.connected_pins[k].pin_id : k \in 1..Len(st.connected_pins)}

\* lines 476-482: every pin of comp_id not yet processed joins the group and the queue
RECURSIVE ScanPins(_, _, _, _)
ScanPins(all_pins, k, comp_id, st) ==
    IF k > Len(all_pins) THEN st
    ELSE LET pin == all_pins[k]
         IN  IF pin.component_id = comp_id /\ pin.pin_id \notin Processed(st)
             THEN ScanPins(all_pins, k + 1, comp_id,
                           [connected_pins |-> Append(st.connected_pins, pin),
                            queue |-> Append(st.queue, pin)])
             ELSE ScanPins(all_pins, k + 1, comp_id, st)

\* the same walk without the test of line 474: a component is its own neighbour
ScanPinsOfAny(all_pins, comp_id, current_pin, st) ==
    ScanPins(all_pins, 1, comp_id, st)

\* lines 473-474: the other components named by one connection
ScanPinsOfOther(all_pins, comp_id, current_pin, st) ==
    IF comp_id # current_pin.component_id
    THEN ScanPins(all_pins, 1, comp_id, st)
    ELSE st

RECURSIVE ScanComps(_, _, _, _, _)
ScanComps(cc, j, current_pin, all_pins, st) ==
    IF j > Len(cc) THEN st
    ELSE ScanComps(cc, j + 1, current_pin, all_pins,
                   ScanPinsOfOther(all_pins, cc[j], current_pin, st))

\* lines 470-471: the connections that involve the current pin's component
RECURSIVE ScanConnections(_, _, _, _, _)
ScanConnections(conns, i, current_pin, all_pins, st) ==
    IF i > Len(conns) THEN st
    ELSE IF current_pin.component_id \in Range(conns[i].connected_components)
         THEN ScanConnections(conns, i + 1, current_pin, all_pins,
                              ScanComps(conns[i].connected_components, 1,
                                        current_pin, all_pins, st))
         ELSE ScanConnections(conns, i + 1, current_pin, all_pins, st)

RECURSIVE BfsLoop(_, _, _)
BfsLoop(st, conns, all_pins) ==
    IF st.queue = <<>> THEN st.connected_pins
    ELSE BfsLoop(ScanConnections(conns, 1, Head(st.queue), all_pins,
                                 [st EXCEPT !.queue = Tail(st.queue)]),
                 conns, all_pins)

find_connected_pins(start_pin, conns, all_pins) ==
    BfsLoop([connected_pins |-> <<start_pin>>, queue |-> <<start_pin>>], conns, all_pins)

RECURSIVE SumOf(_, _)
SumOf(s, c) == IF s = <<>> THEN 0 ELSE Head(s)[c] + SumOf(Tail(s), c)

MakeNode(connected_pins, node_counter, seed) ==
    LET positions == [k \in 1..Len(connected_pins) |-> connected_pins[k].position]
        owners == [k \in 1..Len(connected_pins) |-> connected_pins[k].component_id]
    IN  [position |-> <<IntDiv(SumOf(positions, 1), Len(positions)),
                        IntDiv(SumOf(positions, 2), Len(positions))>>,
         node_id |-> <<"node_", node_counter>>,
         connected_components |-> ListOfSet(owners, seed),
         connection_count |-> Len(connected_pins)]

\* marking only the pin the traversal started from
MarkStartOnly(processed_pins, connected_pins) ==
    processed_pins \cup {connected_pins[1].pin_id}

\* lines 454-455: every pin of the group is marked as processed
MarkProcessed(processed_pins, connected_pins) ==
    processed_pins \cup {connected_pins[m].pin_id : m \in 1..Len(connected_pins)}

\* the loop of _identify_electrical_nodes; acc holds the nodes, the group of
\* each node and processed_pins
RECURSIVE IdentifyLoop(_, _, _, _, _)
IdentifyLoop(conns, pins, k, acc, seed) ==
    IF k > Len(pins) THEN acc
    ELSE IF pins[k].pin_id \in acc.processed_pins
         THEN IdentifyLoop(conns, pins, k + 1, acc, seed)
         ELSE LET connected_pins == find_connected_pins(pins[k], conns, pins)
              IN  IdentifyLoop(conns, pins, k + 1,
                     [nodes |-> Append(acc.nodes,
                                       MakeNode(connected_pins, Len(acc.nodes), seed)),
                      groups |-> Append(acc.groups, connected_pins),
                      processed_pins |-> MarkProcessed(acc.processed_pins, connected_pins)],
                     seed)

identify_electrical_nodes(conns, pins, seed) ==
    IdentifyLoop(conns, pins, 1, [nodes |-> <<>>, groups |-> <<>>, processed_pins |-> {}], seed)

\* ------------------------------------------------------------ network builder
Dist2(a, b) == (a[1] - b[1]) * (a[1] - b[1]) + (a[2] - b[2]) * (a[2] - b[2])

proximity_threshold == 25

\* line 398: np.sqrt(dx**2 + dy**2) < proximity_threshold, on integer coordinates
Near(point, pin_pos) ==
    Dist2(point, pin_pos) < proximity_threshold * proximity_threshold

\* lines 391-399: the owners of the pins near either end, one entry per pin
RECURSIVE NearbyOwners(_, _, _, _)
NearbyOwners(pins, k, start_point, end_point) ==
    IF k > Len(pins) THEN <<>>
    ELSE (IF Near(start_point, pins[k].position) \/ Near(end_point, pins[k].position)
          THEN <<pins[k].component_id>> ELSE <<>>)
         \o NearbyOwners(pins, k + 1, start_point, end_point)

\* a network builder that keeps every segment
KeepEvery(conn, connected_components) ==
    << [start_point |-> conn.start_point,
        end_point |-> conn.end_point,
        path |-> <<conn.start_point, conn.end_point>>,
        connection_type |-> conn.connection_type,
        confidence |-> conn.confidence,
        connected_components |-> connected_components] >>

\* a network builder that keeps a segment only when it joins two components
KeepJoining(conn, connected_components) ==
    IF Len(connected_components) >= 2
    THEN << [start_point |-> conn.start_point,
             end_point |-> conn.end_point,
             path |-> <<conn.start_point, conn.end_point>>,
             connection_type |-> conn.connection_type,
             confidence |-> conn.confidence,
             connected_components |-> connected_components] >>
    ELSE <<>>

\* lines 404-412: a segment with at least one nearby component becomes a Connection
KeepConnection(conn, connected_components) ==
    IF Len(connected_components) >= 1
    THEN << [start_point |-> conn.start_point,
             end_point |-> conn.end_point,
             path |-> <<conn.start_point, conn.end_point>>,
             connection_type |-> conn.connection_type,
             confidence |-> conn.confidence,
             connected_components |-> connected_components] >>
    ELSE <<>>

RECURSIVE build_connection_network(_, _, _)
build_connection_network(electrical_connections, pins, seed) ==
    IF electrical_connections = <<>> THEN <<>>
    ELSE LET conn == Head(electrical_connections)
             owners == NearbyOwners(pins, 1, conn.start_point, conn.end_point)
         IN  KeepConnection(conn, ListOfSet(owners, seed))
             \o build_connection_network(Tail(electrical_connections), pins, seed)

\* ---------------------------------------------------------- topology analysis
\* the pairs (comp1, comp2) visited by `for i, c1 in enumerate(cc): for c2 in cc[i+1:]`
RECURSIVE PairsFrom(_, _, _)
PairsFrom(cc, a, b) ==
    IF a > Len(cc) THEN <<>>
    ELSE IF b > Len(cc) THEN PairsFrom(cc, a + 1, a + 2)
    ELSE << <<cc[a], cc[b]>> >> \o PairsFrom(cc, a, b + 1)

RECURSIVE AllPairs(_)
AllPairs(conns) ==
    IF conns = <<>> THEN <<>>
    ELSE LET c == Head(conns)
             ps == PairsFrom(c.connected_components, 1, 2)
         IN  [k \in 1..Len(ps) |-> [pair |-> ps[k], confidence |-> c.confidence]]
             \o AllPairs(Tail(conns))

\* comp_id_to_idx: a later component with the same id overwrites an earlier one
HasIdx(components, id) == \E k \in 1..Len(components) : components[k].id = id
IdxOf(components, id) ==
    CHOOSE k \in 1..Len(components) :
        /\ components[k].id = id
        /\ \A m \in 1..Len(components) : components[m].id = id => m <= k

\* a fill that marks a pair in one direction only
RECURSIVE FillOneWay(_, _, _)
FillOneWay(matrix, pairs, components) ==
    IF pairs = <<>> THEN matrix
    ELSE LET c1 == Head(pairs).pair[1]
             c2 == Head(pairs).pair[2]
         IN  IF HasIdx(components, c1) /\ HasIdx(components, c2)
             THEN FillOneWay([matrix EXCEPT ![IdxOf(components, c1)][IdxOf(components, c2)] = 1],
                             Tail(pairs), components)
             ELSE FillOneWay(matrix, Tail(pairs), components)

RECURSIVE FillMatrix(_, _, _)
FillMatrix(matrix, pairs, components) ==
    IF pairs = <<>> THEN matrix
    ELSE LET c1 == Head(pairs).pair[1]
             c2 == Head(pairs).pair[2]
         IN  IF HasIdx(components, c1) /\ HasIdx(components, c2)
             THEN LET idx1 == IdxOf(components, c1)
                      idx2 == IdxOf(components, c2)
                      m1 == [matrix EXCEPT ![idx1][idx2] = 1]
                  IN  FillMatrix([m1 EXCEPT ![idx2][idx1] = 1], Tail(pairs), components)
             ELSE FillMatrix(matrix, Tail(pairs), components)

build_connectivity_matrix(conns, components) ==
    LET n_components == Len(components)
        matrix == [i \in 1..n_components |-> [j \in 1..n_components |-> 0]]
    IN  FillMatrix(matrix, AllPairs(conns), components)

RECURSIVE SumSeq(_)
SumSeq(s) == IF s = <<>> THEN 0 ELSE Head(s) + SumSeq(Tail(s))

RECURSIVE IsolatedFrom(_, _, _)
IsolatedFrom(connectivity_matrix, components, i) ==
    IF i > Len(connectivity_matrix) THEN <<>>
    ELSE (IF SumSeq(connectivity_matrix[i]) = 0 THEN <<components[i].id>> ELSE <<>>)
         \o IsolatedFrom(connectivity_matrix, components, i + 1)

\* a scan of the rows that starts one row late
find_isolated_after_first(connectivity_matrix, components) ==
    IsolatedFrom(connectivity_matrix, components, 2)

find_isolated_components(connectivity_matrix, components) ==
    IsolatedFrom(connectivity_matrix, components, 1)

\* a dict as the list of its items in insertion order
DictHas(d, key) == \E k \in 1..Len(d) : d[k].key = key
DictGet(d, key, default) ==
    IF DictHas(d, key) THEN d[CHOOSE k \in 1..Len(d) : d[k].key = key].value ELSE default
DictSet(d, key, value) ==
    IF DictHas(d, key)
    THEN [k \in 1..Len(d) |-> IF d[k].key = key THEN [key |-> key, value |-> value] ELSE d[k]]
    ELSE Append(d, [key |-> key, value |-> value])

\* lines 545-552; the key f"{comp1}-{comp2}" is the triple <<comp1, "-", comp2>>
RECURSIVE StrengthLoop(_, _)
StrengthLoop(strengths, pairs) ==
    IF pairs = <<>> THEN strengths
    ELSE LET comp1 == Head(pairs).pair[1]
             comp2 == Head(pairs).pair[2]
             pair_key == <<comp1, "-", comp2>>
             reverse_key == <<comp2, "-", comp1>>
             strength == Head(pairs).confidence
             existing_strength == DictGet(strengths, pair_key,
                                          DictGet(strengths, reverse_key, 0))
         IN  StrengthLoop(DictSet(strengths, pair_key, Max2(strength, existing_strength)),
                          Tail(pairs))

calculate_connection_strengths(conns) == StrengthLoop(<<>>, AllPairs(conns))

build_connection_matrix(conns, components) ==
    LET connectivity_matrix == build_connectivity_matrix(conns, components)
    IN  [adjacency_matrix |-> connectivity_matrix,
         component_ids |-> [k \in 1..Len(components) |-> components[k].id],
         connection_strengths |-> calculate_connection_strengths(conns),
         isolated_components |-> find_isolated_components(connectivity_matrix, components)]

\* a quotient a / b kept as the pair <<a, b>>
calculate_circuit_complexity(conns, ns, components) ==
    LET n_components == Len(components)
        n_connections == Len(conns)
        n_nodes == Len(ns)
    IN  [component_density |-> <<n_connections, Max2(n_components, 1)>>,
         node_complexity |-> <<n_nodes, Max2(n_components, 1)>>,
         connection_ratio |-> <<n_connections, Max2(n_components - 1, 1)>>,
         average_node_degree |->
             <<SumSeq([k \in 1..Len(ns) |-> ns[k].connection_count]), Max2(n_nodes, 1)>>]

IsShortInclusive(conn) == Dist2(conn.end_point, conn.start_point) <= 10 * 10

IsShort(conn) == Dist2(conn.end_point, conn.start_point) < 10 * 10

\* the message of an issue is kept as its count (and the ids it lists)
identify_potential_issues(conns, ns, components) ==
    LET connectivity_matrix == build_connectivity_matrix(conns, components)
        isolated_components == find_isolated_components(connectivity_matrix, components)
        high_degree_nodes == SelectSeq(ns, LAMBDA node : node.connection_count > 4)
        short_connections == SelectSeq(conns, IsShort)
    IN  (IF isolated_components # <<>>
         THEN << [type |-> "isolation", severity |-> "warning",
                  message |-> <<Len(isolated_components), isolated_components>>] >>
         ELSE <<>>)
        \o (IF high_degree_nodes # <<>>
            THEN << [type |-> "high_connectivity", severity |-> "info",
                     message |-> <<Len(high_degree_nodes), <<>> >>] >>
            ELSE <<>>)
        \o (IF short_connections # <<>>
            THEN << [type |-> "short_connections", severity |-> "info",
                     message |-> <<Len(short_connections), <<>> >>] >>
            ELSE <<>>)

analyze_circuit_topology(conns, ns, comps) ==
    [total_connections |-> Len(conns),
     total_nodes |-> Len(ns),
     total_components |-> Len(comps),
     connectivity_matrix |-> build_connectivity_matrix(conns, comps),
     circuit_complexity |-> calculate_circuit_complexity(conns, ns, comps),
     potential_issues |-> identify_potential_issues(conns, ns, comps)]

\* --------------------------------------------------------- detect_connections
\* the steps of detect_connections in which an exception can be thrown
Stages == {"line_detection", "classification", "pin_extraction", "network", "nodes"}

\* line 93: what the handler returns
FailureResult == [connections |-> <<>>, nodes |-> <<>>, topology_analysis |-> EmptyDict]

\* lines 53-89; img.readable is FALSE when cv2.imread returns None, img.segments
\* are the classified segments steps 1 and 2 extract from a readable image;
\* thrown names the step that throws, if any
DetectBody(img, comps, seed, thrown) ==
    IF ~img.readable THEN [exception |-> "ValueError"]
    ELSE IF thrown \in Stages THEN [exception |-> thrown]
    ELSE LET electrical_connections == img.segments
             pins == extract_component_pins(comps)
             conns == build_connection_network(electrical_connections, pins, seed)
             r == identify_electrical_nodes(conns, pins, seed)
         IN  [exception |-> None,
              groups |-> r.groups,
              result |-> [connections |-> conns,
                          nodes |-> r.nodes,
                          topology_analysis |->
                              analyze_circuit_topology(conns, r.nodes, comps),
                          component_pins |-> pins,
                          connection_matrix |->
                              build_connection_matrix(conns, comps)]]

\* detect_connections without the handler of lines 91-93
detect_connections_unguarded(img, comps, seed, thrown) ==
    LET body == DetectBody(img, comps, seed, thrown)
    IN  IF body.exception # None
        THEN [raised |-> TRUE, exception |-> body.exception, result |-> PyNoneObj, groups |-> <<>>]
        ELSE [raised |-> FALSE, exception |-> None, result |-> body.result,
              groups |-> body.groups]

\* lines 51-93: every exception of the body, the ValueError of line 55 included,
\* is caught and answered with the empty result
detect_connections(img, comps, seed, thrown) ==
    LET body == DetectBody(img, comps, seed, thrown)
    IN  IF body.exception # None
        THEN [raised |-> FALSE, exception |-> None, result |-> FailureResult, groups |-> <<>>]
        ELSE [raised |-> FALSE, exception |-> None, result |-> body.result,
              groups |-> body.groups]

\* ----------------------------------------------------------- netlist generator
\* ---- str methods, character by character
StartsWith(str, prefix) ==
    Len(str) >= Len(prefix) /\ SubSeq(str, 1, Len(prefix)) = prefix

\* sub in str
RECURSIVE Contains(_, _)
Contains(str, sub) ==
    IF StartsWith(str, sub) THEN TRUE
    ELSE IF str = "" THEN FALSE
    ELSE Contains(Tail(str), sub)

\* str.replace(old, new) for a non-empty old: occurrences from left to right
RECURSIVE Replace(_, _, _)
Replace(str, old, new) ==
    IF str = "" THEN ""
    ELSE IF StartsWith(str, old)
         THEN new \o Replace(SubSeq(str, Len(old) + 1, Len(str)), old, new)
         ELSE Head(str) \o Replace(Tail(str), old, new)

\* the cased letters that occur: <<upper case, lower case>>
Letters == <<
    <<"A", "a">>, <<"B", "b">>, <<"C", "c">>, <<"D", "d">>, <<"E", "e">>, <<"F", "f">>, <<"G", "g">>,
    <<"H", "h">>, <<"I", "i">>, <<"J", "j">>, <<"K", "k">>, <<"L", "l">>, <<"M", "m">>, <<"N", "n">>,
    <<"O", "o">>, <<"P", "p">>, <<"Q", "q">>, <<"R", "r">>, <<"S", "s">>, <<"T", "t">>, <<"U", "u">>,
    <<"V", "v">>, <<"W", "w">>, <<"X", "x">>, <<"Y", "y">>, <<"Z", "z">>, <<"Ω", "ω">>, <<"Μ", "μ">> >>

LowerOf ==
    [c \in {Letters[k][1] : k \in 1..Len(Letters)} |->
        Letters[CHOOSE k \in 1..Len(Letters) : Letters[k][1] = c][2]]

UpperOf ==
    [c \in {Letters[k][2] : k \in 1..Len(Letters)} |->
        Letters[CHOOSE k \in 1..Len(Letters) : Letters[k][2] = c][1]]

\* str.lower() and str.upper()
RECURSIVE LowerChars(_)
LowerChars(str) ==
    IF str = "" THEN ""
    ELSE (IF Head(str) \in DOMAIN LowerOf THEN LowerOf[Head(str)] ELSE Head(str))
         \o LowerChars(Tail(str))

\* the lower-case forms of the component types, computed once
ComponentTypes == {"resistor", "capacitor", "inductor", "ground", "unknown", "CAPACITOR"}
LowerOfType == [t \in ComponentTypes |-> LowerChars(t)]

Lower(str) == IF str \in ComponentTypes THEN LowerOfType[str] ELSE LowerChars(str)

RECURSIVE Upper(_)
Upper(str) ==
    IF str = "" THEN ""
    ELSE (IF Head(str) \in DOMAIN UpperOf THEN UpperOf[Head(str)] ELSE Head(str))
         \o Upper(Tail(str))

IsDict(obj) == "py" \notin DOMAIN obj

\* lines 42-62 for one component; n is len(spice_components). comp.get exists on
\* a dict only and .lower() on a str only: anything else throws AttributeError
ProcessComponent(comp, n) ==
    IF ~IsDict(comp) THEN [ok |-> FALSE, exception |-> "AttributeError"]
    ELSE LET designation == Get(comp, "designation", "COMP" \o ToString(n + 1))
             component_type == Get(comp, "component_type", "unknown")
             value == Get(comp, "value", "1")
         IN  IF component_type = PyNone THEN [ok |-> FALSE, exception |-> "AttributeError"]
             ELSE LET spice_line ==
                          IF Lower(component_type) = "resistor"
                              THEN "R" \o designation \o " N1 N2 " \o value
                          ELSE IF Lower(component_type) = "capacitor"
                              THEN "C" \o designation \o " N1 N2 " \o value
                          ELSE IF Lower(component_type) = "inductor"
                              THEN "L" \o designation \o " N1 N2 " \o value
                          ELSE "X" \o designation \o " N1 N2 " \o component_type
                  IN  [ok |-> TRUE,
                       spice_line |-> spice_line,
                       entry |-> [designation |-> designation,
                                  type |-> component_type,
                                  value |-> value,
                                  spice_line |-> spice_line]]

BreakAfterFailure(items) == <<>>

\* lines 64-66: `continue` goes on with the components that follow
AfterFailure(items) == Tail(items)

\* lines 40-66: a component that throws is logged and skipped
RECURSIVE ComponentLoop(_, _)
ComponentLoop(items, acc) ==
    IF items = <<>> THEN acc
    ELSE LET r == ProcessComponent(Head(items), Len(acc.spice_components))
         IN  IF r.ok
             THEN ComponentLoop(Tail(items),
                      [netlist_lines |-> Append(acc.netlist_lines, r.spice_line),
                       spice_components |-> Append(acc.spice_components, r.entry)])
             ELSE ComponentLoop(AfterFailure(items), acc)

HeaderLines == <<"* Generated SPICE Netlist", "* Hardware AI Orchestrator", "">>

\* lines 32-84; the text "\n".join(netlist_lines) is kept as the list of its lines
NetlistBody(components) ==
    IF components.py # "list" THEN [exception |-> "TypeError"]
    ELSE LET acc == ComponentLoop(components.items,
                        [netlist_lines |-> HeaderLines, spice_components |-> <<>>])
             netlist_lines == acc.netlist_lines \o <<"", ".op", ".end">>
         IN  [exception |-> None,
              result |-> [netlist |-> netlist_lines,
                          components |-> acc.spice_components,
                          node_mapping |-> EmptyDict,
                          analysis_commands |-> <<".op">>,
                          metadata |-> [generation_success |-> TRUE,
                                        total_components |-> Len(acc.spice_components)]]]

\* lines 88-97: the empty text '' has no lines
NetlistFailure(error) ==
    [netlist |-> <<>>,
     components |-> <<>>,
     node_mapping |-> EmptyDict,
     analysis_commands |-> <<>>,
     metadata |-> [generation_success |-> FALSE, error |-> error]]

\* generate_spice_netlist without the handler of lines 86-97
generate_spice_netlist_unguarded(components, conns, ns) ==
    LET body == NetlistBody(components)
    IN  IF body.exception # None
        THEN [raised |-> TRUE, result |-> PyNoneObj]
        ELSE [raised |-> FALSE, result |-> body.result]

\* lines 27-97; connections and nodes are not read
generate_spice_netlist(components, conns, ns) ==
    LET body == NetlistBody(components)
    IN  IF body.exception # None
        THEN [raised |-> FALSE, result |-> NetlistFailure(body.exception)]
        ELSE [raised |-> FALSE, result |-> body.result]

PyList(items) == [py |-> "list", items |-> items]

\* lines 206-217
TypePrefix(comp_type) ==
    CASE comp_type = "resistor" -> "R"
      [] comp_type = "capacitor" -> "C"
      [] comp_type = "inductor" -> "L"
      [] comp_type = "voltage_source" -> "V"
      [] comp_type = "current_source" -> "I"
      [] comp_type = "diode" -> "D"
      [] comp_type = "transistor" -> "Q"
      [] comp_type = "op_amp" -> "U"
      [] OTHER -> "X"

\* lines 199-225: the name and the counter dict the call leaves behind
generate_spice_name(counter, comp_type, designation) ==
    IF designation # "" /\ Len(designation) > 1
    THEN [name |-> Upper(designation), counter |-> counter]
    ELSE LET prefix == TypePrefix(comp_type)
             next == IF prefix \notin DOMAIN counter THEN 1 ELSE counter[prefix] + 1
             updated == [q \in DOMAIN counter \cup {prefix} |->
                            IF q = prefix THEN next ELSE counter[q]]
         IN  [name |-> prefix \o ToString(next), counter |-> updated]

\* ---- value normalisation, lines 227-300; `not value_str` holds for '' and None
\* a resistance parser that leaves the unit symbol in place
parse_resistance_keep_unit(value_str) ==
    IF value_str \in {"", PyNone} THEN "1k"
    ELSE LET v == Lower(Replace(value_str, " ", ""))
         IN  IF v # "" THEN v ELSE "1k"

parse_resistance_value(value_str) ==
    IF value_str \in {"", PyNone} THEN "1k"
    ELSE LET v == Lower(Replace(Replace(Replace(value_str, "Ω", ""), "ohm", ""), " ", ""))
         IN  IF Contains(v, "k") THEN v
             ELSE IF Contains(v, "m") /\ ~Contains(v, "meg") THEN Replace(v, "m", "meg")
             ELSE IF Contains(v, "g") THEN Replace(v, "g", "g")
             ELSE IF v # "" THEN v ELSE "1k"

\* the items of a multiplier_map in insertion order
RECURSIVE ReplaceAll(_, _)
ReplaceAll(str, multiplier_map) ==
    IF multiplier_map = <<>> THEN str
    ELSE ReplaceAll(Replace(str, Head(multiplier_map)[1], Head(multiplier_map)[2]),
                    Tail(multiplier_map))

parse_capacitance_value(value_str) ==
    IF value_str \in {"", PyNone} THEN "1n"
    ELSE LET v == Lower(Replace(Replace(value_str, "F", ""), " ", ""))
             multiplier_map == << <<"μ", "u">>, <<"u", "u">>, <<"n", "n">>,
                                  <<"p", "p">>, <<"f", "f">> >>
             w == ReplaceAll(v, multiplier_map)
         IN  IF w # "" THEN w ELSE "1n"

parse_inductance_value(value_str) ==
    IF value_str \in {"", PyNone} THEN "1u"
    ELSE LET v == Lower(Replace(Replace(value_str, "H", ""), " ", ""))
             multiplier_map == << <<"μ", "u">>, <<"u", "u">>, <<"m", "m">>, <<"n", "n">> >>
             w == ReplaceAll(v, multiplier_map)
         IN  IF w # "" THEN w ELSE "1u"

parse_voltage_value(value_str) ==
    IF value_str \in {"", PyNone} THEN "5"
    ELSE LET v == Lower(Replace(Replace(value_str, "V", ""), " ", ""))
         IN  IF Contains(v, "k") THEN v
             ELSE IF Contains(v, "m") THEN Replace(v, "m", "m")
             ELSE IF v # "" THEN v ELSE "5"

\* lines 343-346: node ids are pairs <<"node_", k>>, the reserved keys <<"gnd">>
\* and <<"ground">>
RECURSIVE AssignNodes(_, _, _)
AssignNodes(node_mapping, node_number, ns) ==
    IF ns = <<>> THEN node_mapping
    ELSE IF ~DictHas(node_mapping, Head(ns).node_id)
         THEN AssignNodes(DictSet(node_mapping, Head(ns).node_id, node_number),
                          node_number + 1, Tail(ns))
         ELSE AssignNodes(node_mapping, node_number, Tail(ns))

\* lines 332-348
build_node_mapping(ns, conns) ==
    LET reserved == DictSet(DictSet(<<>>, <<"gnd">>, 0), <<"ground">>, 0)
    IN  AssignNodes(reserved, 1, ns)

\* line 359: the number a netlist line shows for a node id
NodeNumber(node_mapping, node_id) == DictGet(node_mapping, node_id, 0)

\* ------------------------------------------- specification: node resolver alone
RECURSIVE CataloguePins(_)
CataloguePins(S) ==
    IF S = {} THEN {}
    ELSE LET c == CHOOSE c \in S : TRUE
         IN  Range(PinsOf(c)) \cup CataloguePins(S \ {c})

PinUniverse == CataloguePins(Catalogue)

\* the layout of sets of str in the process that runs the resolver on its own
NodesSeed == <<"G1", "R1", "R2">>

\* the Connection objects the resolver may be handed: one for every non-empty
\* group of component ids, listed as list(set(...)) lists them in this process
ConnectionUniverse ==
    {[start_point |-> <<0, 0>>, end_point |-> <<50, 0>>,
      path |-> << <<0, 0>>, <<50, 0>> >>,
      connection_type |-> "wire", confidence |-> 100,
      connected_components |-> OrderBy(S, NodesSeed)] : S \in (SUBSET CompIds) \ {{}}}

\* the parts of the state a specification does not use
TopoIdle ==
    component_pins = <<>> /\ connections = <<>> /\ nodes = None /\ nodeGroups = None

ProcIdle ==
    /\ image = [readable |-> FALSE, segments |-> <<>>]
    /\ detected_components = <<>>
    /\ fault = None
    /\ detect_outcome = PyNoneObj
    /\ topology_analysis = PyNoneObj
    /\ netlist_result = PyNoneObj
    /\ netlist_calls = 0
    /\ status = None
    /\ pc = "idle"
    /\ run = 0
    /\ firstRun = PyNoneObj

NetIdle == net_arg = PyNoneObj /\ net_result = PyNoneObj /\ net_called = FALSE

NameIdle ==
    component_counter = EmptyDict /\ pending = <<>> /\ served = <<>> /\ names = <<>>

CallIdle == call = PyNoneObj /\ ret = PyNoneObj /\ returned = FALSE

InitNodes ==
    /\ component_pins \in DistinctSeqs(PinUniverse, MaxPins)
    /\ connections \in SeqsUpTo(ConnectionUniverse, MaxConns)
    /\ hashSeed = NodesSeed
    /\ nodes = None
    /\ nodeGroups = None
    /\ image = [readable |-> FALSE, segments |-> <<>>]
    /\ detected_components = <<>>
    /\ fault = None
    /\ detect_outcome = PyNoneObj
    /\ topology_analysis = PyNoneObj
    /\ netlist_result = PyNoneObj
    /\ netlist_calls = 0
    /\ status = None
    /\ pc = "nodes"
    /\ run = 0
    /\ firstRun = PyNoneObj
    /\ NetIdle
    /\ NameIdle
    /\ CallIdle

IdentifyElectricalNodes ==
    /\ pc = "nodes"
    /\ pc' = "resolved"
    /\ LET r == identify_electrical_nodes(connections, component_pins, hashSeed)
       IN  /\ nodes' = r.nodes
           /\ nodeGroups' = r.groups
    /\ UNCHANGED <<component_pins, connections, hashSeed, image, detected_components, fault,
                 detect_outcome, topology_analysis, netlist_result, netlist_calls,
                 status, run, firstRun, netVars, nameVars, callVars>>

NextNodes == IdentifyElectricalNodes

SpecNodes == InitNodes /\ [][NextNodes]_vars

\* ------------------------------------------------------------ node properties
GroupIds(i) == {nodeGroups[i][k].pin_id : k \in 1..Len(nodeGroups[i])}

ShareNode(a, b) == \E i \in 1..Len(nodeGroups) : a.pin_id \in GroupIds(i) /\ b.pin_id \in GroupIds(i)

RECURSIVE SumCounts(_)
SumCounts(ns) == IF ns = <<>> THEN 0 ELSE Head(ns).connection_count + SumCounts(Tail(ns))

PinSet == Range(component_pins)

\* C1: every pin lies in exactly one node: the pin groups of the nodes are
\* pairwise disjoint and cover all pins, the connection_count values sum to the
\* number of pins, and sharing a node is transitive
C1_Partition ==
    pc = "resolved" =>
        /\ \A p \in PinSet :
              Cardinality({i \in 1..Len(nodeGroups) : p.pin_id \in GroupIds(i)}) = 1
        /\ \A i \in 1..Len(nodeGroups) : GroupIds(i) \subseteq {p.pin_id : p \in PinSet}
        /\ \A i, j \in 1..Len(nodeGroups) : i # j => GroupIds(i) \cap GroupIds(j) = {}
        /\ \A i \in 1..Len(nodes) : nodes[i].connection_count = Cardinality(GroupIds(i))
        /\ SumCounts(nodes) = Len(component_pins)
        /\ \A a, b, c \in PinSet : ShareNode(a, b) /\ ShareNode(b, c) => ShareNode(a, c)

\* three pins of three components chained by two connections into one node
C1_Witness ==
    /\ pc = "resolved"
    /\ Len(component_pins) = 3
    /\ Len(connections) = 2
    /\ Len(nodes) = 1
    /\ Cardinality({component_pins[k].component_id : k \in 1..3}) = 3
    /\ \A i \in 1..2 : Len(connections[i].connected_components) = 2

\* the pin graph: p and q are adjacent when some Connection names both owners;
\* with distinctOnly the two owners must be different components
Adjacent(p, q, distinctOnly) ==
    /\ distinctOnly => p.component_id # q.component_id
    /\ \E i \in 1..Len(connections) :
          /\ p.component_id \in Range(connections[i].connected_components)
          /\ q.component_id \in Range(connections[i].connected_components)

RECURSIVE Reachable(_, _)
Reachable(S, distinctOnly) ==
    LET N == S \cup {q \in PinSet : \E p \in S : Adjacent(p, q, distinctOnly)}
    IN  IF N = S THEN S ELSE Reachable(N, distinctOnly)

GraphComponents(distinctOnly) == {Reachable({p}, distinctOnly) : p \in PinSet}

NodeGroupSets == {Range(nodeGroups[i]) : i \in 1..Len(nodeGroups)}

NodesAreComponentsOf(distinctOnly) ==
    /\ NodeGroupSets = GraphComponents(distinctOnly)
    /\ Len(nodes) = Cardinality(GraphComponents(distinctOnly))
    /\ \A i \in 1..Len(nodes) :
          /\ nodes[i].connection_count = Cardinality(Range(nodeGroups[i]))
          /\ Range(nodes[i].connected_components) =
                 {p.component_id : p \in Range(nodeGroups[i])}

\* C3 as stated: the nodes are the connected components of the pin graph in
\* which two pins are adjacent iff some Connection names both owning components
C3_AsStated == pc = "resolved" => NodesAreComponentsOf(FALSE)

\* C3 amended: the nodes are the connected components of the pin graph in which
\* two pins are adjacent iff they belong to different components and some
\* Connection names both owning components; a pin without such a neighbour is a
\* singleton node
C3_ComponentsOfDistinctOwnerGraph == pc = "resolved" => NodesAreComponentsOf(TRUE)

\* a dangling connection on a two-pin component next to a merged pair: the two
\* pins of the dangling component stay apart
C3_Witness ==
    /\ pc = "resolved"
    /\ Len(component_pins) = 3
    /\ Len(nodes) = 2
    /\ \E i \in 1..Len(connections) : Len(connections[i].connected_components) = 1
    /\ \E i \in 1..Len(connections) : Len(connections[i].connected_components) = 2
    /\ \E i \in 1..Len(nodes) : nodes[i].connection_count = 2

\* ----------------------------------------- specification: process_schematic
Images ==
    {[readable |-> FALSE, segments |-> <<>>]}
    \cup {[readable |-> TRUE, segments |-> segs] : segs \in SeqsUpTo(SegmentCatalogue, MaxSegs)}

IdsOf(components) == {components[k].id : k \in 1..Len(components)}

Init ==
    /\ image \in Images
    /\ detected_components \in DistinctSeqs(Catalogue, MaxComps)
    /\ hashSeed \in Permutations_(IdsOf(detected_components))
    /\ fault = None
    /\ detect_outcome = PyNoneObj
    /\ topology_analysis = PyNoneObj
    /\ netlist_result = PyNoneObj
    /\ netlist_calls = 0
    /\ status = None
    /\ pc = "topology"
    /\ run = 1
    /\ firstRun = PyNoneObj
    /\ TopoIdle
    /\ NetIdle
    /\ NameIdle
    /\ CallIdle

\* lines 107-108: what the handler of process_schematic puts in place
FallbackNetlist ==
    [netlist |-> <<>>, components |-> <<>>, metadata |-> [generation_success |-> FALSE]]

\* lines 84-86, and lines 105-109 when the call throws
DetectConnections ==
    /\ pc = "topology"
    /\ \E thrown \in Stages \cup {None} :
          /\ ~image.readable => thrown = None
          /\ fault' = IF ~image.readable THEN "image_decode" ELSE thrown
          /\ LET r == detect_connections(image, detected_components, hashSeed, thrown)
             IN  /\ detect_outcome' = r
                 /\ IF r.raised
                    THEN /\ topology_analysis' = FailureResult
                         /\ netlist_result' = FallbackNetlist
                         /\ pc' = "finish"
                    ELSE /\ topology_analysis' = r.result
                         /\ netlist_result' = netlist_result
                         /\ pc' = "netlist"
    /\ UNCHANGED <<hashSeed, image, detected_components, netlist_calls, status, run,
                   firstRun, topoVars, netVars, nameVars, callVars>>

\* lines 90-94, and lines 105-109 when the call throws
GenerateSpiceNetlist ==
    /\ pc = "netlist"
    /\ netlist_calls' = netlist_calls + 1
    /\ LET r == generate_spice_netlist(PyList(detected_components),
                                       topology_analysis.connections,
                                       topology_analysis.nodes)
       IN  IF r.raised
           THEN /\ topology_analysis' = FailureResult
                /\ netlist_result' = FallbackNetlist
           ELSE /\ topology_analysis' = topology_analysis
                /\ netlist_result' = r.result
    /\ pc' = "finish"
    /\ UNCHANGED <<hashSeed, image, detected_components, fault, detect_outcome, status,
                   run, firstRun, topoVars, netVars, nameVars, callVars>>

\* lines 111-262: the response is assembled
Finish ==
    /\ pc = "finish"
    /\ status' = "success"
    /\ pc' = "done"
    /\ UNCHANGED <<hashSeed, image, detected_components, fault, detect_outcome,
                   topology_analysis, netlist_result, netlist_calls, run, firstRun,
                   topoVars, netVars, nameVars, callVars>>

\* the same image and component list are processed once more by another
\* interpreter process, whose layout of sets of str is its own
Rerun ==
    /\ pc = "done"
    /\ run = 1
    /\ fault = None
    /\ firstRun' = [topology_analysis |-> topology_analysis,
                    netlist_result |-> netlist_result]
    /\ hashSeed' \in Permutations_(IdsOf(detected_components))
    /\ run' = 2
    /\ fault' = None
    /\ detect_outcome' = PyNoneObj
    /\ topology_analysis' = PyNoneObj
    /\ netlist_result' = PyNoneObj
    /\ netlist_calls' = 0
    /\ status' = None
    /\ pc' = "topology"
    /\ UNCHANGED <<image, detected_components, topoVars, netVars, nameVars, callVars>>

Next == DetectConnections \/ GenerateSpiceNetlist \/ Finish

Spec == Init /\ [][Next]_vars

\* the request processed twice
NextRepeat == DetectConnections \/ GenerateSpiceNetlist \/ Finish \/ Rerun

SpecRepeat == Init /\ [][NextRepeat]_vars

\* -------------------------------------------------- properties of the pipeline
AfterDetect == pc \in {"netlist", "finish", "done"}

\* detect_connections ran to its end on a readable image
Detected == AfterDetect /\ image.readable /\ fault = None

Pins == extract_component_pins(detected_components)

NearPinsIn(pins, seg) ==
    {k \in 1..Len(pins) : \/ Near(seg.start_point, pins[k].position)
                          \/ Near(seg.end_point, pins[k].position)}

NearPins(seg) == NearPinsIn(Pins, seg)

\* two 2-terminal components and one segment that is near the right pin of the
\* first and the left pin of the second and near no other pin
SeriesScenario ==
    /\ Len(detected_components) = 2
    /\ Len(Pins) = 4
    /\ Pins[2].component_id = detected_components[1].id
    /\ Pins[3].component_id = detected_components[2].id
    /\ Len(image.segments) = 1
    /\ NearPins(image.segments[1]) = {2, 3}

\* C2 as stated: in the series scenario there is exactly 1 Connection, joining
\* the two components, and there are exactly 3 nodes: the left pin of the first
\* alone, the two facing pins together, the right pin of the second alone
C2_AsStated ==
    Detected /\ SeriesScenario =>
        /\ Len(topology_analysis.connections) = 1
        /\ Range(topology_analysis.connections[1].connected_components)
               = IdsOf(detected_components)
        /\ Len(topology_analysis.nodes) = 3
        /\ {Range(detect_outcome.groups[i]) : i \in 1..Len(detect_outcome.groups)}
               = {{Pins[1]}, {Pins[2], Pins[3]}, {Pins[4]}}

HasNearPin(seg) == NearPins(seg) # {}

KeptSegments == SelectSeq(image.segments, HasNearPin)

NodeIds(ns) == [k \in 1..Len(ns) |-> ns[k].node_id]

\* C5 as stated: a repeated run on the same image and component list gives the
\* same Connections (content and order of connected_components included), the
\* same connection_strengths keys, the same node ids and the same netlist text
C5_AsStated ==
    run = 2 /\ pc = "done" /\ fault = None =>
        /\ topology_analysis.connections = firstRun.topology_analysis.connections
        /\ topology_analysis.connection_matrix.connection_strengths
               = firstRun.topology_analysis.connection_matrix.connection_strengths
        /\ NodeIds(topology_analysis.nodes) = NodeIds(firstRun.topology_analysis.nodes)
        /\ netlist_result.netlist = firstRun.netlist_result.netlist

\* C8 as stated: an image that cannot be loaded makes detect_connections fail
\* with an error that reaches the caller, and no other failure does
C8_AsStated ==
    AfterDetect =>
        /\ ~image.readable => detect_outcome.raised
        /\ fault \in Stages => ~detect_outcome.raised

\* C9: a failure in line detection, classification, pin extraction, network
\* building or node resolution does not escape detect_connections, whose result
\* has the keys connections, nodes and topology_analysis, empty on failure;
\* process_schematic then still calls generate_spice_netlist and ends in success
C9_FailureContained ==
    /\ AfterDetect =>
          /\ ~detect_outcome.raised
          /\ {"connections", "nodes", "topology_analysis"} \subseteq DOMAIN detect_outcome.result
    /\ AfterDetect /\ fault \in Stages =>
          /\ detect_outcome.result.connections = <<>>
          /\ detect_outcome.result.nodes = <<>>
          /\ DOMAIN detect_outcome.result.topology_analysis = {}
    /\ pc \in {"finish", "done"} /\ fault \in Stages =>
          /\ netlist_calls = 1
          /\ netlist_result.metadata.generation_success
          /\ Len(netlist_result.components) = Len(detected_components)
    /\ pc = "done" /\ fault \in Stages => status = "success"

\* node resolution threw on a schematic with components; the response is a success
C9_Witness ==
    /\ pc = "done"
    /\ fault = "nodes"
    /\ Len(detected_components) = 2
    /\ Len(image.segments) = 1
    /\ status = "success"
    /\ netlist_calls = 1

IsComment(line) == line \in {HeaderLines[1], HeaderLines[2]}

\* the lines a netlist without devices may consist of
IsSkeletonLine(line) == line \in {HeaderLines[1], HeaderLines[2], "", ".op", ".end"}

\* C11: with an empty component list, whatever segments the image has, the
\* network builder returns no Connection and the node resolver no node, and
\* generate_spice_netlist returns generation_success true and a text made only
\* of the header comment lines, blank lines, .op and .end
C11_GracefulEmptiness ==
    detected_components = <<>> =>
        /\ Detected =>
              /\ topology_analysis.connections = <<>>
              /\ topology_analysis.nodes = <<>>
        /\ pc \in {"finish", "done"} =>
              LET text == netlist_result.netlist
              IN  /\ netlist_result.metadata.generation_success = TRUE
                  /\ netlist_result.components = <<>>
                  /\ \A k \in 1..Len(text) : IsSkeletonLine(text[k])
                  /\ IsComment(text[1])
                  /\ \E k \in 1..Len(text) : text[k] = ".op"
                  /\ text[Len(text)] = ".end"

\* no component, two segments, the processing is over
C11_Witness ==
    /\ pc = "done"
    /\ fault = None
    /\ image.readable
    /\ detected_components = <<>>
    /\ Len(image.segments) = 2
    /\ netlist_calls = 1

\* the ids that occur in some Connection's connected_components
ConnectedIds(conns) == UNION {Range(conns[i].connected_components) : i \in 1..Len(conns)}

IsolationIssues(issues) == {k \in 1..Len(issues) : issues[k].type = "isolation"}

\* C12: every component that no Connection lists is in isolated_components of
\* the connection matrix, and when that list is non-empty potential_issues has
\* exactly one issue of type isolation, of severity warning
C12_IsolationDetected ==
    Detected =>
        LET isolated == topology_analysis.connection_matrix.isolated_components
            issues == topology_analysis.topology_analysis.potential_issues
        IN  /\ \A k \in 1..Len(detected_components) :
                  detected_components[k].id \notin ConnectedIds(topology_analysis.connections)
                      => detected_components[k].id \in Range(isolated)
            /\ isolated # <<>> =>
                  /\ Cardinality(IsolationIssues(issues)) = 1
                  /\ \A k \in IsolationIssues(issues) : issues[k].severity = "warning"

\* two components, a Connection that lists the first of them only: the second
\* is in no Connection and both are isolated
C12_Witness ==
    /\ Detected
    /\ Len(detected_components) = 2
    /\ Len(topology_analysis.connections) = 1
    /\ ConnectedIds(topology_analysis.connections) = {detected_components[1].id}
    /\ Len(topology_analysis.connection_matrix.isolated_components) = 2

\* the whitespace-separated fields of a netlist line
RECURSIVE SplitFrom(_, _, _)
SplitFrom(str, word, acc) ==
    IF str = ""
    THEN IF word = "" THEN acc ELSE Append(acc, word)
    ELSE IF Head(str) = " "
         THEN SplitFrom(Tail(str), "", IF word = "" THEN acc ELSE Append(acc, word))
         ELSE SplitFrom(Tail(str), word \o Head(str), acc)

Fields(line) == SplitFrom(line, "", <<>>)

IsDeviceLine(line) == line # "" /\ Head(line) \notin {"*", "."}

DeviceLines(text) == SelectSeq(text, IsDeviceLine)

\* a device line is `name node1 node2 value-or-model`
NodeFields(line) == {Fields(line)[2], Fields(line)[3]}

ShareElectricalNode(ns, id1, id2) ==
    \E k \in 1..Len(ns) : {id1, id2} \subseteq Range(ns[k].connected_components)

\* C13 as stated: two device lines of the netlist carry a common node field only
\* if their two components share an ElectricalNode (line k is the line of
\* component k when every component got a line)
C13_AsStated ==
    pc = "done" /\ Detected =>
        LET lines == DeviceLines(netlist_result.netlist)
        IN  Len(lines) = Len(detected_components) =>
                \A i, j \in 1..Len(lines) :
                    i # j /\ NodeFields(lines[i]) \cap NodeFields(lines[j]) # {}
                        => ShareElectricalNode(topology_analysis.nodes,
                                               detected_components[i].id,
                                               detected_components[j].id)

DeviceName(line) == Fields(line)[1]

\* C14 as stated: the device name on the line of a component with a designation
\* is that designation uppercased, without a prefix; a component without one is
\* named by the prefix of its type followed by a counter
C14_AsStated ==
    pc = "done" /\ Detected =>
        LET lines == DeviceLines(netlist_result.netlist)
        IN  Len(lines) = Len(detected_components) =>
                \A k \in 1..Len(lines) :
                    LET comp == detected_components[k]
                    IN  IF "designation" \in DOMAIN comp
                        THEN DeviceName(lines[k]) = Upper(comp.designation)
                        ELSE \E n \in 1..Len(lines) :
                                DeviceName(lines[k])
                                    = TypePrefix(comp.component_type) \o ToString(n)

\* ------------------------------ specification: generate_spice_netlist alone
\* entries of a components argument: well-formed dicts, a dict with defaults
\* only, an entry that is a str, and a dict whose component_type is None
NetEntries ==
    {CompR1,
     [id |-> "C1", component_type |-> "CAPACITOR", designation |-> "C1", value |-> "100uF"],
     [id |-> "x9"],
     [py |-> "str"],
     [id |-> "n1", component_type |-> PyNone]}

NetArgs ==
    {PyNoneObj, [py |-> "int"]}
    \cup {PyList(items) : items \in SeqsUpTo(NetEntries, MaxNetComps)}

InitNetlist ==
    /\ net_arg \in NetArgs
    /\ net_result = PyNoneObj
    /\ net_called = FALSE
    /\ hashSeed = <<>>
    /\ ProcIdle
    /\ TopoIdle
    /\ NameIdle
    /\ CallIdle

CallGenerateSpiceNetlist ==
    /\ ~net_called
    /\ net_result' = generate_spice_netlist(net_arg, <<>>, <<>>)
    /\ net_called' = TRUE
    /\ UNCHANGED <<net_arg, topoVars, procVars, nameVars, callVars>>

NextNetlist == CallGenerateSpiceNetlist

SpecNetlist == InitNetlist /\ [][NextNetlist]_vars

\* C6: generate_spice_netlist returns a result object for every argument, and
\* when generation is aborted (the argument cannot be iterated) the result has
\* no devices, generation_success false and an error description
C6_NeverRaises ==
    net_called =>
        /\ ~net_result.raised
        /\ {"netlist", "components", "metadata"} \subseteq DOMAIN net_result.result
        /\ net_arg.py # "list" =>
              /\ net_result.result.components = <<>>
              /\ net_result.result.metadata.generation_success = FALSE
              /\ "error" \in DOMAIN net_result.result.metadata
        /\ net_arg.py = "list" => net_result.result.metadata.generation_success = TRUE

\* the call with components = None has returned
C6_Witness ==
    /\ net_called
    /\ net_arg = PyNoneObj
    /\ net_result.result.metadata.error = "TypeError"

\* C7 as stated: every returned netlist text, on success and on failure, starts
\* with the header comment lines, contains .op and ends with the line .end
C7_AsStated ==
    net_called =>
        LET text == net_result.result.netlist
        IN  /\ Len(text) >= 4
            /\ IsComment(text[1])
            /\ \E k \in 1..Len(text) : text[k] = ".op"
            /\ text[Len(text)] = ".end"

\* the normalised form of a value string for the device class of a type
Normalised(component_type, value) ==
    CASE Lower(component_type) = "resistor" -> parse_resistance_value(value)
      [] Lower(component_type) = "capacitor" -> parse_capacitance_value(value)
      [] Lower(component_type) = "inductor" -> parse_inductance_value(value)
      [] OTHER -> value

\* C16 as stated: the value field of every resistor, capacitor and inductor line
\* of a returned netlist is the normalised form of the component's value string
C16_AsStated ==
    net_called /\ net_arg.py = "list" =>
        LET devices == net_result.result.components
        IN  \A k \in 1..Len(devices) :
                Lower(devices[k].type) \in {"resistor", "capacitor", "inductor"}
                    => Fields(devices[k].spice_line)[4]
                           = Normalised(devices[k].type, devices[k].value)

HasDirective(lines, directive) ==
    \E k \in 1..Len(lines) : StartsWith(lines[k], directive)

HasDevice(devices, types) ==
    \E k \in 1..Len(devices) : Lower(devices[k].type) \in types

\* C17 as stated: analysis_commands of a successful result, and the directive
\* lines of its text, contain .op and a transient directive, a DC sweep exactly
\* when there is a voltage source device, and an AC directive exactly when there
\* is a capacitor or inductor device
C17_AsStated ==
    net_called /\ net_arg.py = "list" =>
        LET res == net_result.result
        IN  \A lines \in {res.analysis_commands, res.netlist} :
                /\ HasDirective(lines, ".op")
                /\ HasDirective(lines, ".tran")
                /\ HasDirective(lines, ".dc") <=> HasDevice(res.components, {"voltage_source"})
                /\ HasDirective(lines, ".ac")
                       <=> HasDevice(res.components, {"capacitor", "inductor"})

\* C28 as stated: no two device lines of one netlist carry the same device name,
\* also when components repeat a designation or lack one
C28_AsStated ==
    net_called /\ net_arg.py = "list" =>
        LET lines == DeviceLines(net_result.result.netlist)
        IN  \A i, j \in 1..Len(lines) :
                i # j => DeviceName(lines[i]) # DeviceName(lines[j])

\* a component whose processing throws: not a dict, or a type that is None
Fails(comp) ==
    \/ ~IsDict(comp)
    \/ "component_type" \in DOMAIN comp /\ comp.component_type = PyNone

\* C30: a component whose processing fails is skipped alone: the others get one
\* device line each, in list order; the device lines, the components list and
\* total_components agree in number, and generation_success is true
C30_SkipFailedOnly ==
    net_called /\ net_arg.py = "list" =>
        LET res == net_result.result
            lines == DeviceLines(res.netlist)
            kept == SelectSeq(net_arg.items, LAMBDA comp : ~Fails(comp))
        IN  /\ Len(lines) = Len(kept)
            /\ Len(res.components) = Len(kept)
            /\ res.metadata.total_components = Len(kept)
            /\ res.metadata.generation_success = TRUE
            /\ \A k \in 1..Len(kept) :
                    /\ res.components[k].spice_line = lines[k]
                    /\ res.components[k].type = Get(kept[k], "component_type", "unknown")
                    /\ res.components[k].value = Get(kept[k], "value", "1")
                    /\ "designation" \in DOMAIN kept[k] =>
                            res.components[k].designation = kept[k].designation

\* a failing component between two good ones was skipped alone
C30_Witness ==
    /\ net_called
    /\ net_arg.py = "list"
    /\ Len(net_arg.items) = 3
    /\ Fails(net_arg.items[2])
    /\ ~Fails(net_arg.items[1])
    /\ ~Fails(net_arg.items[3])
    /\ Len(net_result.result.components) = 2

\* ------------------------ specification: name allocation on a shared generator
Runs == {1, 2}

\* the (type, designation) pairs handed to _generate_spice_name
NameRequests ==
    {[component_type |-> "resistor", designation |-> ""],
     [component_type |-> "capacitor", designation |-> ""],
     [component_type |-> "resistor", designation |-> "r7"],
     [component_type |-> "op_amp", designation |-> "x"]}

InitNames ==
    /\ component_counter = EmptyDict
    /\ pending \in [Runs -> SeqsUpTo(NameRequests, MaxRunLen)]
    /\ served = [r \in Runs |-> <<>>]
    /\ names = [r \in Runs |-> <<>>]
    /\ hashSeed = <<>>
    /\ ProcIdle
    /\ TopoIdle
    /\ NetIdle
    /\ CallIdle

\* run r names its next component
GenerateSpiceName(r) ==
    /\ pending[r] # <<>>
    /\ LET request == Head(pending[r])
           res == generate_spice_name(component_counter, request.component_type,
                                      request.designation)
       IN  /\ component_counter' = res.counter
           /\ names' = [names EXCEPT ![r] = Append(@, res.name)]
           /\ served' = [served EXCEPT ![r] = Append(@, request)]
    /\ pending' = [pending EXCEPT ![r] = Tail(@)]
    /\ UNCHANGED <<topoVars, procVars, netVars, callVars>>

NextNames == \E r \in Runs : GenerateSpiceName(r)

SpecNames == InitNames /\ [][NextNames]_vars

\* the names a run gets from a generator nobody else uses
RECURSIVE FreshNames(_, _)
FreshNames(requests, counter) ==
    IF requests = <<>> THEN <<>>
    ELSE LET res == generate_spice_name(counter, Head(requests).component_type,
                                        Head(requests).designation)
         IN  <<res.name>> \o FreshNames(Tail(requests), res.counter)

\* C10 as stated: the names handed out in a run are numbered from 1 for that run
\* alone, whatever the other run on the same NetlistGenerator does
C10_AsStated ==
    \A r \in Runs : names[r] = FreshNames(served[r], EmptyDict)

\* --------------------------------- specification: the value parsers on their own
Digits == {"0", "1", "2", "5", "7"}

RECURSIVE DigitStrings(_)
DigitStrings(n) ==
    IF n = 0 THEN {}
    ELSE Digits \cup {d \o c : d \in DigitStrings(n - 1), c \in Digits}

\* unit suffixes as OCR reads them
Units == {"kΩ", "μF", "pF", "V", "", "MΩ", "mH", "nF", "k", "m", "M", "g"}

\* the magnitudes read: digit strings, or nothing at all
Magnitudes == DigitStrings(MaxDigits) \cup {""}

ValueParsers == {"resistance", "capacitance", "inductance", "voltage"}

InitValues ==
    /\ call \in {[fn |-> f, digits |-> d, unit |-> u, value_str |-> d \o u] :
                    f \in ValueParsers, d \in Magnitudes, u \in Units}
                \cup {[fn |-> f, digits |-> "", unit |-> "", value_str |-> PyNone] :
                        f \in ValueParsers}
    /\ ret = PyNoneObj
    /\ returned = FALSE
    /\ hashSeed = <<>>
    /\ ProcIdle
    /\ TopoIdle
    /\ NetIdle
    /\ NameIdle

Return(value) ==
    /\ ret' = value
    /\ returned' = TRUE
    /\ UNCHANGED <<call, topoVars, procVars, netVars, nameVars>>

ParseResistanceValue ==
    ~returned /\ call.fn = "resistance" /\ Return(parse_resistance_value(call.value_str))

ParseCapacitanceValue ==
    ~returned /\ call.fn = "capacitance" /\ Return(parse_capacitance_value(call.value_str))

ParseInductanceValue ==
    ~returned /\ call.fn = "inductance" /\ Return(parse_inductance_value(call.value_str))

ParseVoltageValue ==
    ~returned /\ call.fn = "voltage" /\ Return(parse_voltage_value(call.value_str))

NextValues ==
    ParseResistanceValue \/ ParseCapacitanceValue \/ ParseInductanceValue \/ ParseVoltageValue

SpecValues == InitValues /\ [][NextValues]_vars

\* C15: for every non-empty digit string d, the resistance parser turns d kΩ into d k, the
\* capacitance parser d μF into d u and d pF into d p, the voltage parser d V
\* into d
C15_RoundTrip ==
    returned /\ call.digits # "" =>
        /\ call.fn = "resistance" /\ call.unit = "kΩ" => ret = call.digits \o "k"
        /\ call.fn = "capacitance" /\ call.unit = "μF" => ret = call.digits \o "u"
        /\ call.fn = "capacitance" /\ call.unit = "pF" => ret = call.digits \o "p"
        /\ call.fn = "voltage" /\ call.unit = "V" => ret = call.digits

\* the resistance parser returned 10k for 10kΩ
C15_Witness ==
    /\ returned
    /\ call.fn = "resistance"
    /\ call.value_str = "10kΩ"
    /\ ret = "10k"

\* C24 as stated: the resistance parser turns the prefix m into meg when it
\* denotes mega (10M) and never when it denotes milli (10m); k and g pass through
\* and the ohm symbol is stripped
C24_AsStated ==
    returned /\ call.fn = "resistance" /\ call.digits # "" =>
        /\ call.unit \in {"M", "MΩ"} => ret = call.digits \o "meg"
        /\ call.unit = "m" => ret # call.digits \o "meg"
        /\ call.unit \in {"k", "kΩ"} => ret = call.digits \o "k"
        /\ call.unit = "g" => ret = call.digits \o "g"

DefaultValue == [resistance |-> "1k", capacitance |-> "1n", inductance |-> "1u",
                 voltage |-> "5"]

\* C25 as stated: a value string that is missing, empty or without a numeric
\* magnitude gives the default of the parser: 1k, 1n, 1u, 5
C25_AsStated ==
    returned /\ call.digits = "" => ret = DefaultValue[call.fn]

\* ------------------------ specification: _build_connectivity_matrix on its own
\* Connections as the network builder makes them: connected_components comes
\* from list(set(...)), so it repeats no id; its order is any
MatrixConnections ==
    {[start_point |-> <<0, 0>>, end_point |-> <<50, 0>>,
      path |-> << <<0, 0>>, <<50, 0>> >>,
      connection_type |-> "wire", confidence |-> 100,
      connected_components |-> cc] : cc \in DistinctSeqs(CompIds, 3) \ {<<>>}}

InitMatrix ==
    /\ call \in {[fn |-> "build_connectivity_matrix", connections |-> cs, components |-> comps] :
                    cs \in SeqsUpTo(MatrixConnections, MaxConns),
                    comps \in DistinctSeqs(Catalogue, MaxComps + 1)}
    /\ ret = PyNoneObj
    /\ returned = FALSE
    /\ hashSeed = <<>>
    /\ ProcIdle
    /\ TopoIdle
    /\ NetIdle
    /\ NameIdle

BuildConnectivityMatrix ==
    /\ ~returned
    /\ call.fn = "build_connectivity_matrix"
    /\ Return(build_connectivity_matrix(call.connections, call.components))

NextMatrix == BuildConnectivityMatrix

SpecMatrix == InitMatrix /\ [][NextMatrix]_vars

Joined(conns, id1, id2) ==
    \E k \in 1..Len(conns) : {id1, id2} \subseteq Range(conns[k].connected_components)

\* C18: the adjacency matrix is square over the components, symmetric, zero on
\* the diagonal, and for i # j entry (i, j) is 1 exactly when some Connection's
\* connected_components contains both component i and component j
C18_Adjacency ==
    returned =>
        LET n == Len(call.components)
        IN  /\ Len(ret) = n
            /\ \A i \in 1..n :
                  /\ Len(ret[i]) = n
                  /\ ret[i][i] = 0
                  /\ \A j \in 1..n :
                        /\ ret[i][j] \in {0, 1}
                        /\ ret[i][j] = ret[j][i]
                        /\ i # j =>
                              (ret[i][j] = 1 <=> Joined(call.connections,
                                                        call.components[i].id,
                                                        call.components[j].id))

\* three components, the first and the last joined by a Connection that lists
\* them last-first, the middle one joined to neither
C18_Witness ==
    /\ returned
    /\ Len(call.components) = 3
    /\ Len(call.connections) = 1
    /\ call.connections[1].connected_components
           = <<call.components[3].id, call.components[1].id>>
    /\ ret = << <<0, 0, 1>>, <<0, 0, 0>>, <<1, 0, 0>> >>

\* ------------------------------ specification: _merge_nearby_lines on its own
\* raw segments (x1, y1, x2, y2) as the line transform may list them
LineA == <<0, 0, 100, 0>>
LineB == <<8, 0, 108, 0>>       \* within 10px of LineA at both ends
LineC == <<16, 0, 116, 0>>      \* within 10px of LineB, not of LineA
LineD == <<5, 0, 92, 0>>        \* within 10px of LineA, not of LineB
LineRevA == <<100, 0, 0, 0>>    \* listed from right to left
LineRevB == <<105, 0, 5, 0>>    \* within 10px of LineRevA at both ends
LineFar == <<0, 50, 100, 50>>

LineCatalogue == {LineA, LineB, LineC, LineD, LineRevA, LineRevB, LineFar}

InitMerge ==
    /\ call \in {[fn |-> "merge_nearby_lines", lines |-> ls] :
                    ls \in SeqsUpTo(LineCatalogue, MaxLines)}
    /\ ret = PyNoneObj
    /\ returned = FALSE
    /\ hashSeed = <<>>
    /\ ProcIdle
    /\ TopoIdle
    /\ NetIdle
    /\ NameIdle

MergeNearbyLines ==
    /\ ~returned
    /\ call.fn = "merge_nearby_lines"
    /\ Return(merge_nearby_lines(call.lines))

NextMerge == MergeNearbyLines

SpecMerge == InitMerge /\ [][NextMerge]_vars

Between(v, a, b) == Min2(a, b) <= v /\ v <= Max2(a, b)

\* both endpoints of line lie in the extent spanned by the endpoints of m
WithinExtent(line, m) ==
    /\ Between(line[1], m[1], m[3]) /\ Between(line[3], m[1], m[3])
    /\ Between(line[2], m[2], m[4]) /\ Between(line[4], m[2], m[4])

\* C19 as stated: an output that segments were merged into spans the endpoints
\* of every segment merged into it
C19_AsStated ==
    returned =>
        \A k \in 1..Len(ret.merged) :
            Len(ret.groups[k]) >= 2 =>
                \A j \in Range(ret.groups[k]) : WithinExtent(call.lines[j], ret.merged[k])

\* the output that input segment j went into
OutputOf(j) == CHOOSE k \in 1..Len(ret.groups) : j \in Range(ret.groups[k])

\* C20 as stated: any two input segments less than 10px apart at their start
\* points and at their end points are in the same output segment; an empty
\* input gives an empty output
C20_AsStated ==
    returned =>
        /\ call.lines = <<>> => ret.merged = <<>>
        /\ \A i, j \in 1..Len(call.lines) :
              i < j /\ IsNearby(call.lines[i], call.lines[j]) => OutputOf(i) = OutputOf(j)

\* input segment i starts an output
Seeds(i) == ret.groups[OutputOf(i)][1] = i

\* C20, greedy: two such segments are in the same output when the earlier one
\* starts an output and the later one was not absorbed by an output started
\* before it; an empty input gives an empty output
C20_GreedyMerge ==
    returned =>
        /\ call.lines = <<>> => ret.merged = <<>>
        /\ \A i, j \in 1..Len(call.lines) :
              /\ i < j
              /\ IsNearby(call.lines[i], call.lines[j])
              /\ Seeds(i)
              /\ OutputOf(j) >= OutputOf(i)
              => OutputOf(i) = OutputOf(j)

\* LineA absorbs LineB and then LineD, which is near LineA and not near what
\* LineA and LineB were merged into
C20_Witness ==
    /\ returned
    /\ call.lines = <<LineA, LineB, LineD>>
    /\ ret.groups = << <<1, 2, 3>> >>

\* --------------------------- specification: _classify_line_segments on its own
GridCoords == {0, 10, 50}

MeasuredSegments ==
    {[line |-> <<x1, y1, x2, y2>>, thickness |-> t, continuity |-> c] :
        x1 \in GridCoords, y1 \in GridCoords, x2 \in GridCoords, y2 \in GridCoords,
        t \in {2, 3, 4}, c \in {80, 90}}

InitClassify ==
    /\ call \in {[fn |-> "classify_line_segments", line_segments |-> <<m>>] :
                    m \in MeasuredSegments}
    /\ ret = PyNoneObj
    /\ returned = FALSE
    /\ hashSeed = <<>>
    /\ ProcIdle
    /\ TopoIdle
    /\ NetIdle
    /\ NameIdle

ClassifyLineSegments ==
    /\ ~returned
    /\ call.fn = "classify_line_segments"
    /\ Return(classify_line_segments(call.line_segments))

NextClassify == ClassifyLineSegments

SpecClassify == InitClassify /\ [][NextClassify]_vars

\* the orientation of the segment is within 15 degrees of 0, 90 or 180 degrees,
\* whichever endpoint is listed first
AxisAligned(line) ==
    LET dx == line[3] - line[1]
        dy == line[4] - line[2]
    IN  \/ dx = 0 /\ dy = 0
        \/ Within15(Abs(dx), dy)
        \/ Within15(Abs(dy), dx)

\* C21 as stated: confidence = min(1.0, 0.7 + 0.2 [axis-aligned] + 0.1 [length >
\* 30] + 0.1 [thickness <= 3 and continuity > 0.8]), axis-aligned being the same
\* for either order of the endpoints; the confidence lies in [0.7, 1.0]
C21_AsStated ==
    returned =>
        \A k \in 1..Len(ret) :
            LET m == call.line_segments[k]
                dx == m.line[3] - m.line[1]
                dy == m.line[4] - m.line[2]
                sum == 70 + (IF AxisAligned(m.line) THEN 20 ELSE 0)
                          + (IF dx * dx + dy * dy > 900 THEN 10 ELSE 0)
                          + (IF m.thickness <= 3 /\ m.continuity > 80 THEN 10 ELSE 0)
            IN  /\ ret[k].confidence = Min2(100, sum)
                /\ ret[k].confidence >= 70
                /\ ret[k].confidence <= 100

\* ----------------------- specification: _get_component_pin_locations on its own
BoxOrigins == {0, 10}
BoxSizes == {0, 20, 45, 90}
PinTypes ==
    {"resistor", "inductor", "capacitor", "unknown", "transistor", "op_amp", "ic",
     "voltage_source", "current_source", "ground"}
MultiPinTypes == {"transistor", "op_amp", "ic"}

InitPins ==
    /\ call \in {[fn |-> "get_component_pin_locations",
                   bbox |-> <<x1, y1, x1 + w, y1 + h>>, comp_type |-> t] :
                    x1 \in BoxOrigins, y1 \in BoxOrigins, w \in BoxSizes,
                    h \in BoxSizes, t \in PinTypes}
    /\ ret = PyNoneObj
    /\ returned = FALSE
    /\ hashSeed = <<>>
    /\ ProcIdle
    /\ TopoIdle
    /\ NetIdle
    /\ NameIdle

GetComponentPinLocations ==
    /\ ~returned
    /\ call.fn = "get_component_pin_locations"
    /\ Return(get_component_pin_locations(call.bbox, call.comp_type))

NextPins == GetComponentPinLocations

SpecPins == InitPins /\ [][NextPins]_vars

Mid(a, b) == (a + b) \div 2

InsideBox(pin, bbox) ==
    /\ bbox[1] <= pin[1] /\ pin[1] <= bbox[3]
    /\ bbox[2] <= pin[2] /\ pin[2] <= bbox[4]

\* C22 as stated: two-terminal passives and unknown types get the left and right
\* midpoints, voltage and current sources the top and bottom midpoints, ground the
\* top midpoint alone, and every pin lies inside the box, zero-area boxes included
C22_AsStated ==
    returned /\ call.comp_type \notin MultiPinTypes =>
        LET b == call.bbox
            cx == Mid(b[1], b[3])
            cy == Mid(b[2], b[4])
            t == call.comp_type
        IN  /\ t \in {"resistor", "inductor", "capacitor", "unknown"} =>
                    ret = << <<b[1], cy>>, <<b[3], cy>> >>
            /\ t \in {"voltage_source", "current_source"} =>
                    ret = << <<cx, b[2]>>, <<cx, b[4]>> >>
            /\ t = "ground" => ret = << <<cx, b[2]>> >>
            /\ \A k \in 1..Len(ret) : InsideBox(ret[k], b)

LongerDimension(bbox) == Max2(bbox[3] - bbox[1], bbox[4] - bbox[2])

EstimatedPins(bbox) == Max2(2, LongerDimension(bbox) \div 20)

\* the i-th of n evenly spaced positions strictly between a and b
Spaced(a, b, n, i) == (a * (n + 1) + i * (b - a)) \div (n + 1)

OnTopAndBottom(pins, bbox, n) ==
    Range(pins) = UNION {{<<Spaced(bbox[1], bbox[3], n, i), bbox[2]>>,
                          <<Spaced(bbox[1], bbox[3], n, i), bbox[4]>>} : i \in 1..n}

OnLeftAndRight(pins, bbox, n) ==
    Range(pins) = UNION {{<<bbox[1], Spaced(bbox[2], bbox[4], n, i)>>,
                          <<bbox[3], Spaced(bbox[2], bbox[4], n, i)>>} : i \in 1..n}

\* C23 as stated: n = max(2, floor(longer dimension / 20)) pins on each of two
\* opposite edges, the long edges when the box is wider than tall and the short
\* edges otherwise
C23_AsStated ==
    returned /\ call.comp_type \in MultiPinTypes =>
        LET b == call.bbox
            n == EstimatedPins(b)
            width == b[3] - b[1]
            height == b[4] - b[2]
        IN  /\ Len(ret) = 2 * n
            /\ width > height => OnTopAndBottom(ret, b, n)
            /\ width < height => OnTopAndBottom(ret, b, n)
            /\ width = height => OnTopAndBottom(ret, b, n) \/ OnLeftAndRight(ret, b, n)

\* C23 amended: n = max(2, floor(longer dimension / 20)) evenly spaced pins on
\* each of the top and bottom edges when the box is wider than tall, and on each
\* of the left and right edges otherwise
C23_PinsAlongLongerSide ==
    returned /\ call.comp_type \in MultiPinTypes =>
        LET b == call.bbox
            n == EstimatedPins(b)
            width == b[3] - b[1]
            height == b[4] - b[2]
        IN  /\ Len(ret) = 2 * n
            /\ width > height => OnTopAndBottom(ret, b, n)
            /\ width <= height => OnLeftAndRight(ret, b, n)

C23_Witness ==
    /\ returned
    /\ call.comp_type = "ic"
    /\ call.bbox = <<10, 0, 30, 90>>
    /\ Len(ret) = 8
    /\ ret[1] = <<10, 18>>

\* -------------------------- specification: _identify_potential_issues on its own
\* Connections of length 50, 6 and exactly 10
IssueConnections ==
    {[start_point |-> <<0, 0>>, end_point |-> e,
      path |-> << <<0, 0>>, e >>,
      connection_type |-> "wire", confidence |-> 100,
      connected_components |-> cc] :
        e \in {<<50, 0>>, <<6, 0>>, <<6, 8>>},
        cc \in {<<"R1", "R2">>, <<"G1", "R1">>}}

IssueNode(k, count) ==
    [position |-> <<0, 0>>, node_id |-> <<"node_", k>>,
     connected_components |-> <<"R1">>, connection_count |-> count]

IssueNodeLists ==
    {<<>>, <<IssueNode(0, 4)>>, <<IssueNode(0, 5)>>,
     <<IssueNode(0, 2), IssueNode(1, 5)>>, <<IssueNode(0, 6), IssueNode(1, 5)>>}

InitIssues ==
    /\ call \in {[fn |-> "identify_potential_issues", connections |-> cs,
                   nodes |-> ns, components |-> comps] :
                    cs \in SeqsUpTo(IssueConnections, MaxConns),
                    ns \in IssueNodeLists,
                    comps \in DistinctSeqs(Catalogue, MaxComps)}
    /\ ret = PyNoneObj
    /\ returned = FALSE
    /\ hashSeed = <<>>
    /\ ProcIdle
    /\ TopoIdle
    /\ NetIdle
    /\ NameIdle

IdentifyPotentialIssues ==
    /\ ~returned
    /\ call.fn = "identify_potential_issues"
    /\ Return(identify_potential_issues(call.connections, call.nodes, call.components))

NextIssues == IdentifyPotentialIssues

SpecIssues == InitIssues /\ [][NextIssues]_vars

IssuesOfType(issues, type) == {k \in 1..Len(issues) : issues[k].type = type}

ZeroRow(conns, components) ==
    LET matrix == build_connectivity_matrix(conns, components)
    IN  \E i \in 1..Len(components) : SumSeq(matrix[i]) = 0

\* C26: the result holds an isolation warning iff some component has a zero row
\* in the adjacency matrix, a high_connectivity info iff some node has
\* connection_count > 4, a short_connections info iff some Connection is shorter
\* than 10px; each type occurs at most once and nothing else is reported
C26_Additive ==
    returned =>
        LET isolation == IssuesOfType(ret, "isolation")
            high == IssuesOfType(ret, "high_connectivity")
            short == IssuesOfType(ret, "short_connections")
        IN  /\ isolation \cup high \cup short = 1..Len(ret)
            /\ Cardinality(isolation) <= 1
            /\ Cardinality(high) <= 1
            /\ Cardinality(short) <= 1
            /\ isolation # {} <=> ZeroRow(call.connections, call.components)
            /\ high # {} <=>
                    \E k \in 1..Len(call.nodes) : call.nodes[k].connection_count > 4
            /\ short # {} <=>
                    \E k \in 1..Len(call.connections) :
                        LET c == call.connections[k]
                        IN  Dist2(c.start_point, c.end_point) < 100
            /\ \A k \in isolation : ret[k].severity = "warning"
            /\ \A k \in high \cup short : ret[k].severity = "info"

\* all three issues reported at once, by a call that also has a Connection of
\* exactly 10px
C26_Witness ==
    /\ returned
    /\ Len(ret) = 3
    /\ \E k \in 1..Len(call.connections) : call.connections[k].end_point = <<6, 8>>

\* ---------------------------------- specification: _build_node_mapping on its own
\* the components a node joins, as the node resolver lists them
NodeMemberships ==
    {<<"R1">>, <<"R2">>, <<"R1", "R2">>, <<"G1", "R1">>, <<"G1">>}

\* node lists as the node resolver numbers them: node_0, node_1, ...
MappingNodeLists ==
    UNION {{[k \in 1..n |->
                [position |-> <<0, 0>>, node_id |-> <<"node_", k - 1>>,
                 connected_components |-> f[k], connection_count |-> Len(f[k])]] :
            f \in [1..n -> NodeMemberships]} : n \in 0..MaxPins}

InitMapping ==
    /\ call \in {[fn |-> "build_node_mapping", nodes |-> ns, connections |-> <<>>] :
                    ns \in MappingNodeLists}
    /\ ret = PyNoneObj
    /\ returned = FALSE
    /\ hashSeed = <<>>
    /\ ProcIdle
    /\ TopoIdle
    /\ NetIdle
    /\ NameIdle

BuildNodeMapping ==
    /\ ~returned
    /\ call.fn = "build_node_mapping"
    /\ Return(build_node_mapping(call.nodes, call.connections))

NextMapping == BuildNodeMapping

SpecMapping == InitMapping /\ [][NextMapping]_vars

GroundIds == {c.id : c \in {d \in Catalogue : d.component_type = "ground"}}

IsGroundNode(node) == Range(node.connected_components) \cap GroundIds # {}

\* C27 as stated: the node of a ground component is mapped to 0; the other nodes
\* get 1..k in node-list order, and none of them is mapped to or shown as 0
C27_AsStated ==
    returned =>
        LET ns == call.nodes
            others == SelectSeq(ns, LAMBDA node : ~IsGroundNode(node))
        IN  /\ \A k \in 1..Len(ns) :
                    IsGroundNode(ns[k]) => NodeNumber(ret, ns[k].node_id) = 0
            /\ \A k \in 1..Len(others) : NodeNumber(ret, others[k].node_id) = k

\* ------------------- specification: _calculate_connection_strengths on its own
\* Connections whose connected_components list two or three ids in any order, or
\* one id alone, with a confidence of 0.8 or 0.9
StrengthConnections ==
    {[start_point |-> <<0, 0>>, end_point |-> <<50, 0>>,
      path |-> << <<0, 0>>, <<50, 0>> >>,
      connection_type |-> "wire", confidence |-> conf,
      connected_components |-> cc] :
        cc \in {t \in DistinctSeqs(CompIds, 3) : Len(t) >= 2} \cup {<<"R1">>},
        conf \in {80, 90}}

InitStrengths ==
    /\ call \in {[fn |-> "calculate_connection_strengths", connections |-> cs] :
                    cs \in SeqsUpTo(StrengthConnections, MaxConns)}
    /\ ret = PyNoneObj
    /\ returned = FALSE
    /\ hashSeed = <<>>
    /\ ProcIdle
    /\ TopoIdle
    /\ NetIdle
    /\ NameIdle

CalculateConnectionStrengths ==
    /\ ~returned
    /\ call.fn = "calculate_connection_strengths"
    /\ Return(calculate_connection_strengths(call.connections))

NextStrengths == CalculateConnectionStrengths

SpecStrengths == InitStrengths /\ [][NextStrengths]_vars

\* the entries of the dict that belong to the unordered pair {a, b}
EntriesOf(strengths, a, b) ==
    {k \in 1..Len(strengths) : strengths[k].key \in {<<a, "-", b>>, <<b, "-", a>>}}

Containing(conns, a, b) ==
    {k \in 1..Len(conns) : {a, b} \subseteq Range(conns[k].connected_components)}

\* C29 as stated: connection_strengths has exactly one entry for every unordered
\* pair of components that share a Connection, none for the other pairs, and the
\* value is the greatest confidence among the Connections that hold both
C29_AsStated ==
    returned =>
        \A a, b \in CompIds :
            a # b =>
                LET entries == EntriesOf(ret, a, b)
                    sharing == Containing(call.connections, a, b)
                IN  /\ sharing = {} => entries = {}
                    /\ sharing # {} =>
                            /\ Cardinality(entries) = 1
                            /\ \A k \in entries :
                                    /\ \E c \in sharing :
                                            ret[k].value = call.connections[c].confidence
                                    /\ \A c \in sharing :
                                            ret[k].value >= call.connections[c].confidence

====
